---- MODULE Spec2Model ----
(***************************************************************************)
(* Model of server.js: the POST /api/download handler (batch coordinator)  *)
(* and runYtDlp (job runner), together with the yt-dlp subprocesses and    *)
(* the shared downloads directory they write to.                           *)
(*                                                                         *)
(* Strings are sequences of one-character strings, so that the regular     *)
(* expression test, startsWith, endsWith and encodeURIComponent are        *)
(* computed character by character.                                        *)
(***************************************************************************)
EXTENDS Integers, Sequences, FiniteSets, TLC

VARIABLES
  body,      \* req.body of each request
  pc,        \* where each request's handler stands
  links,     \* the handler's links
  idx,       \* the position of the for loop in links
  results,   \* the handler's results
  response,  \* the response sent: <<>> or <<[status, ...]>>
  jobs,      \* the runYtDlp calls made, by request and loop position
  dir,       \* the files of DOWNLOADS_DIR
  quota,     \* environment: how many files one yt-dlp process creates at most
  spawned    \* history: the loop positions at which each request called spawn

vars == <<body, pc, links, idx, results, response, jobs, dir, quota, spawned>>

(***************************************************************************)
(* Bounds of the model.                                                    *)
(***************************************************************************)
\* longest short links array a request carries
MaxLen == 2
\* a long links array has up to MAX + MaxPad entries after its first one
MaxPad == 1
\* files one subprocess creates, where the file selection is checked
MaxFiles == 2
\* files one subprocess creates, where several subprocesses follow or
\* accompany each other
FewFiles == 1

\* the two request handlers that may run at the same time
Batches == {1, 2}

(***************************************************************************)
(* JavaScript values and strings.                                          *)
(***************************************************************************)
JsString(s) == [t |-> "string", s |-> s]
JsNull == [t |-> "null", s |-> <<>>]

\* String(v)
JsToString(v) == IF v.t = "null" THEN <<"n", "u", "l", "l">> ELSE v.s

\* Boolean(s) of a string: the empty string is falsy
Truthy(s) == s # <<>>

Digit == <<"0", "1", "2", "3", "4", "5", "6", "7", "8", "9">>

RECURSIVE NatToStr(_)
NatToStr(n) == IF n < 10 THEN <<Digit[n + 1]>>
               ELSE NatToStr(n \div 10) \o <<Digit[(n % 10) + 1]>>

\* `${n}` of a number
NumToStr(n) == IF n < 0 THEN <<"-">> \o NatToStr(0 - n) ELSE NatToStr(n)

\* lower-case form of a character, as the i flag of a regular expression folds it
Lower(c) == CASE c = "Y" -> "y"
              [] c = "O" -> "o"
              [] c = "U" -> "u"
              [] c = "T" -> "t"
              [] OTHER -> c

StartsWith(s, p) == Len(s) >= Len(p) /\ SubSeq(s, 1, Len(p)) = p

EndsWith(s, p) == Len(s) >= Len(p) /\ SubSeq(s, Len(s) - Len(p) + 1, Len(s)) = p

RECURSIVE Perms(_)
Perms(S) == IF S = {} THEN {<<>>}
            ELSE UNION {{<<x>> \o p : p \in Perms(S \ {x})} : x \in S}

RECURSIVE SetToSeq(_)
SetToSeq(S) == IF S = {} THEN <<>>
               ELSE LET x == CHOOSE y \in S : TRUE IN <<x>> \o SetToSeq(S \ {x})

(***************************************************************************)
(* Request bodies.                                                         *)
(***************************************************************************)
LinkLower == <<"a", "y", "o", "u", "t", "u">>
LinkMixed == <<"Y", "o", "u", "T", "u", "b">>
LinkOther == <<"y", "o", "u", "t">>

\* what an entry of a links array may be
Entries == {JsString(<<>>), JsNull, JsString(LinkLower), JsString(LinkMixed),
            JsString(LinkOther)}
\* the entries the arrays of two entries or more are made of
PairEntries == {JsString(LinkLower), JsString(LinkOther)}

RECURSIVE SeqsUpTo(_, _)
SeqsUpTo(S, n) == IF n = 0 THEN {<<>>}
                  ELSE LET r == SeqsUpTo(S, n - 1)
                       IN r \cup {Append(s, x) : s \in {q \in r : Len(q) = n - 1}, x \in S}

ArrayBody(a) == [kind |-> "array", arr |-> a]
MissingBody == [kind |-> "missing", arr |-> <<>>]
NotArrayBody == [kind |-> "other", arr |-> <<>>]


\* n copies of a link that fails the shape check
Fill(n) == [i \in 1..n |-> JsString(LinkOther)]

\* const MAX = 15
MAX == 15

SingleBodies == {ArrayBody(a) : a \in SeqsUpTo(Entries, 1)}

\* two links that both pass the shape check
TwoJobsBody == ArrayBody(<<JsString(LinkLower), JsString(LinkLower)>>)

\* the arrays of up to MaxLen entries hold one link at most that passes the
\* shape check
ShortBodies ==
  SingleBodies
  \cup {TwoJobsBody}
  \cup {ArrayBody(q) : q \in {a \in SeqsUpTo(PairEntries, MaxLen) :
                                Cardinality({i \in DOMAIN a : a[i].s = LinkLower}) <= 1}}

LongBodies == {ArrayBody(pre \o Fill(n)) :
                 pre \in SeqsUpTo(Entries, 1), n \in (MAX - 1)..(MAX + MaxPad)}

Bodies == ShortBodies \cup LongBodies \cup {MissingBody, NotArrayBody}

ConcBodies == {ArrayBody(<<JsString(LinkLower)>>)}

(***************************************************************************)
(* The downloads directory: a set of files, one per name.                  *)
(***************************************************************************)
Names(d) == {f.name : f \in d}

\* fs.statSync(path.join(DOWNLOADS_DIR, name)).size
StatSize(d, name) == (CHOOSE f \in d : f.name = name).size

\* fs.readdirSync(DOWNLOADS_DIR): the names in an order the file system picks.
\* The names carrying the prefix own come in every order; the others follow in
\* one order (the filter drops them wherever they stand).
ReaddirSync(d, own) ==
  LET mine == {n \in Names(d) : SubSeq(n, 1, Len(own)) = own}
  IN {p \o SetToSeq(Names(d) \ mine) : p \in Perms(mine)}

(***************************************************************************)
(* runYtDlp                                                                *)
(***************************************************************************)
\* uuidv4() in the call for position i of request b: identifiers are all of
\* one length and no two calls get the same one
Uuid(b, i) == <<Digit[b + 1], "-", Digit[(i \div 10) + 1], Digit[(i % 10) + 1]>>

\* `${jobId} - `
Prefix(jobId) == jobId \o <<" ", "-", " ">>

PartSuffix == <<".", "p", "a", "r", "t">>

\* what yt-dlp puts in place of %(title)s.%(ext)s
Tails == {<<"T", ".", "m", "p", "4">>,
          <<"T", ".", "j", "p", "g">>,
          <<"T", ".", "m", "p", "4">> \o PartSuffix}

FileSizes == {1, 2}
ExitCodes == {0, 1}
\* the code of the 'close' event that follows a failed spawn (-ENOENT)
SpawnErrnos == {0 - 2}
\* err.message of the 'error' event
SpawnErrorMessages == {<<"spawn yt-dlp ENOENT">>, <<>>}
StdoutChunk == <<"o">>
StderrChunk == <<"e">>

\* mutant: the filter forgets the partial-download suffix
IsCandidateNoPartFilter(f, prefix) == StartsWith(f, prefix)

\* mutant: the filter forgets the job's prefix
IsCandidateAnyPrefix(f, prefix) == ~EndsWith(f, PartSuffix)

\* f.startsWith(prefix) && !f.endsWith('.part')
IsCandidate(f, prefix) == StartsWith(f, prefix) /\ ~EndsWith(f, PartSuffix)

\* files.filter(...)
RECURSIVE Candidates(_, _)
Candidates(files, prefix) ==
  IF files = <<>> THEN <<>>
  ELSE (IF IsCandidate(Head(files), prefix) THEN <<Head(files)>> ELSE <<>>)
       \o Candidates(Tail(files), prefix)

\* mutant: the comparator sorts the smallest first (sa - sb)
CompareAscending(d, a, b) == StatSize(d, a) - StatSize(d, b)

\* the comparator of candidates.sort: sb - sa
Compare(d, a, b) == StatSize(d, b) - StatSize(d, a)

\* Array.prototype.sort: stable, a stays before b when the comparator is <= 0
RECURSIVE Insert(_, _, _)
Insert(d, sorted, x) ==
  IF sorted = <<>> THEN <<x>>
  ELSE IF Compare(d, Head(sorted), x) <= 0
       THEN <<Head(sorted)>> \o Insert(d, Tail(sorted), x)
       ELSE <<x>> \o sorted

RECURSIVE Sort(_, _)
Sort(d, c) == IF c = <<>> THEN <<>>
              ELSE Insert(d, Sort(d, SubSeq(c, 1, Len(c) - 1)), c[Len(c)])

\* mutant: the first candidate is taken before the candidates are ordered
ScanTakesFirstBeforeSort(d, files, jobId, fsErr) ==
  IF fsErr = "readdir" THEN <<>>
  ELSE LET candidates == Candidates(files, Prefix(jobId))
       IN IF Len(candidates) > 0
          THEN IF Len(candidates) > 1 /\ fsErr = "stat" THEN <<candidates[1]>>
               ELSE <<Sort(d, candidates)[1]>>
          ELSE <<>>

\* The try block of the 'close' handler: found, as <<>> (null) or <<name>>.
\* files is what readdirSync returns; fsErr tells which call throws, if any
\* (the comparator, and so statSync, runs only with two candidates or more).
Scan(d, files, jobId, fsErr) ==
  IF fsErr = "readdir" THEN <<>>
  ELSE LET candidates == Candidates(files, Prefix(jobId))
       IN IF Len(candidates) > 0
          THEN IF Len(candidates) > 1 /\ fsErr = "stat" THEN <<>>
               ELSE <<Sort(d, candidates)[1]>>
          ELSE <<>>

\* encodeURIComponent, one character
EncodeChar(c) == CASE c = " " -> <<"%", "2", "0">>
                   [] c = "%" -> <<"%", "2", "5">>
                   [] OTHER -> <<c>>

RECURSIVE EncodeURIComponent(_)
EncodeURIComponent(s) ==
  IF s = <<>> THEN <<>> ELSE EncodeChar(Head(s)) \o EncodeURIComponent(Tail(s))

DownloadsPath == <<"/", "d", "o", "w", "n", "l", "o", "a", "d", "s", "/">>

\* mutant: ok is decided by the exit code alone
CloseOutcomeExitOnly(code, found, stdout, stderr) ==
  [ok |-> code = 0,
   exitCode |-> code,
   filename |-> IF found # <<>> THEN <<DownloadsPath \o EncodeURIComponent(found[1])>>
                ELSE <<>>,
   stdout |-> stdout,
   stderr |-> stderr]

\* the object the 'close' handler resolves with; filename is <<>> (null) or
\* <<path>>
CloseOutcome(code, found, stdout, stderr) ==
  [ok |-> code = 0 /\ found # <<>>,
   exitCode |-> code,
   filename |-> IF found # <<>> THEN <<DownloadsPath \o EncodeURIComponent(found[1])>>
                ELSE <<>>,
   stdout |-> stdout,
   stderr |-> stderr]

\* the object the 'error' handler resolves with
ErrorOutcome(msg, stdout, stderr) ==
  [ok |-> FALSE,
   err |-> IF Truthy(msg) THEN msg ELSE <<"yt-dlp spawn error">>,
   stdout |-> stdout,
   stderr |-> stderr]

\* mutant: a later resolve replaces the value of the promise
ResolveOverwrites(job, v) == [job EXCEPT !.outcome = <<v>>]

\* resolve(v) of the promise: only the first call settles it
Resolve(job, v) == IF job.outcome = <<>> THEN [job EXCEPT !.outcome = <<v>>] ELSE job

\* the state runYtDlp sets up: identifier, child process, buffers, promise
NewJob(b, i, link, child) ==
  [link |-> link, jobId |-> Uuid(b, i), child |-> child,
   exit |-> <<>>, stdout |-> <<>>, stderr |-> <<>>,
   errorSeen |-> FALSE, closeSeen |-> FALSE, found |-> <<>>, outcome |-> <<>>]

(***************************************************************************)
(* POST /api/download                                                      *)
(***************************************************************************)
RECURSIVE MapToString(_)
MapToString(a) == IF a = <<>> THEN <<>>
                  ELSE <<JsToString(Head(a))>> \o MapToString(Tail(a))

\* Array.isArray(req.body.links) ? req.body.links.map(String).filter(Boolean) : []
ParseLinks(bd) == IF bd.kind = "array" THEN SelectSeq(MapToString(bd.arr), Truthy)
                  ELSE <<>>

\* mutant: the limit is checked off by one
TooManyOffByOne(ls) == Len(ls) > MAX + 1

\* if (links.length > MAX)
TooMany(ls) == Len(ls) > MAX

Pattern == <<"y", "o", "u", "t", "u">>

\* mutant: the i flag is missing
TestYoutuCaseSensitive(link) ==
  \E k \in 1..(Len(link) - Len(Pattern) + 1) :
    \A i \in 1..Len(Pattern) : link[k + i - 1] = Pattern[i]

\* /youtu/i.test(link)
TestYoutu(link) ==
  \E k \in 1..(Len(link) - Len(Pattern) + 1) :
    \A i \in 1..Len(Pattern) : Lower(link[k + i - 1]) = Pattern[i]

ValidationRecord(link) ==
  [link |-> link, ok |-> FALSE, message |-> "Basic validation failed: not a YouTube link"]

StartedRecord(link) == [link |-> link, status |-> "started"]

\* `exitCode ${r.exitCode}`
ExitCodeText(r) ==
  <<"e", "x", "i", "t", "C", "o", "d", "e", " ">>
  \o (IF "exitCode" \in DOMAIN r THEN NumToStr(r.exitCode)
      ELSE <<"u", "n", "d", "e", "f", "i", "n", "e", "d">>)

\* mutant: standard output is preferred to standard error
ErrorTextStdoutFirst(r) == IF Truthy(r.stdout) THEN r.stdout
                           ELSE IF Truthy(r.stderr) THEN r.stderr
                           ELSE ExitCodeText(r)

\* r.stderr || r.stdout || `exitCode ${r.exitCode}`
ErrorText(r) == IF Truthy(r.stderr) THEN r.stderr
                ELSE IF Truthy(r.stdout) THEN r.stdout
                ELSE ExitCodeText(r)

TerminalRecord(link, r) ==
  IF r.ok THEN [link |-> link, ok |-> TRUE, file |-> r.filename]
  ELSE [link |-> link, ok |-> FALSE, error |-> ErrorText(r)]

\* mutant: the started record is never replaced
StoreLastKeepsStarted(res, rec) == res

\* mutant: the terminal record is pushed instead of replacing the started one
StoreLastAppends(res, rec) == Append(res, rec)

\* results[results.length - 1] = rec
StoreLast(res, rec) == [res EXCEPT ![Len(res)] = rec]

\* mutant: a link failing the check ends the loop
LoopToStopsAtInvalid(ls, i, res) ==
  IF i > Len(ls) THEN [i |-> i, res |-> res]
  ELSE IF ~TestYoutu(ls[i])
       THEN [i |-> Len(ls) + 1, res |-> Append(res, ValidationRecord(ls[i]))]
       ELSE [i |-> i, res |-> Append(res, StartedRecord(ls[i]))]

\* The for loop from position i up to the next await (a started record has
\* been pushed for ls[i]) or to its end (i = Len(ls) + 1).
RECURSIVE LoopTo(_, _, _)
LoopTo(ls, i, res) ==
  IF i > Len(ls) THEN [i |-> i, res |-> res]
  ELSE IF ~TestYoutu(ls[i]) THEN LoopTo(ls, i + 1, Append(res, ValidationRecord(ls[i])))
  ELSE [i |-> i, res |-> Append(res, StartedRecord(ls[i]))]

(***************************************************************************)
(* Actions                                                                 *)
(***************************************************************************)
\* The handler running from loop position i until it suspends on the next
\* await (runYtDlp has spawned the child) or sends the 200 response. js is
\* the jobs as the caller leaves them.
RunFrom(b, ls, i, res, js) ==
  LET st == LoopTo(ls, i, res)
  IN /\ results' = [results EXCEPT ![b] = st.res]
     /\ idx' = [idx EXCEPT ![b] = st.i]
     /\ IF st.i > Len(ls)
        THEN /\ response' = [response EXCEPT ![b] = <<[status |-> 200, results |-> st.res]>>]
             /\ pc' = [pc EXCEPT ![b] = "done"]
             /\ jobs' = js
             /\ UNCHANGED spawned
        ELSE /\ \E child \in {"running", "enoent"} :
                  jobs' = [k \in DOMAIN js \cup {<<b, st.i>>} |->
                             IF k = <<b, st.i>> THEN NewJob(b, st.i, ls[st.i], child)
                             ELSE js[k]]
             /\ spawned' = [spawned EXCEPT ![b] = Append(@, st.i)]
             /\ pc' = [pc EXCEPT ![b] = "await"]
             /\ UNCHANGED response

Reject(b, msg) ==
  /\ response' = [response EXCEPT ![b] = <<[status |-> 400, message |-> msg]>>]
  /\ pc' = [pc EXCEPT ![b] = "done"]
  /\ UNCHANGED <<idx, results, jobs, spawned>>

\* app.post('/api/download', ...) up to its first await or its response
Post(b) ==
  /\ pc[b] = "start"
  /\ LET ls == ParseLinks(body[b])
     IN /\ links' = [links EXCEPT ![b] = ls]
        /\ IF Len(ls) = 0
           THEN Reject(b, "Provide an array of youtube links in \"links\"")
           ELSE IF TooMany(ls)
                THEN Reject(b, "Max 15 links at once")
                ELSE RunFrom(b, ls, 1, <<>>, jobs)
  /\ UNCHANGED <<body, dir, quota>>

\* mutant: the runner deletes the job's partial files once the job is settled
DeliverRemovesPartials(k, job, v) ==
  LET b == k[1]
      settled == Resolve(job, v)
      js == [jobs EXCEPT ![k] = settled]
  IN IF job.outcome = <<>>
     THEN /\ RunFrom(b, links[b], idx[b] + 1,
                     StoreLast(results[b], TerminalRecord(links[b][idx[b]], settled.outcome[1])),
                     js)
          /\ dir' = {f \in dir : ~(f.by = k /\ EndsWith(f.name, PartSuffix))}
          /\ UNCHANGED <<body, links, quota>>
     ELSE /\ jobs' = js
          /\ UNCHANGED <<body, pc, links, idx, results, response, dir, quota, spawned>>

\* An event handler of job k calls resolve(v). If this settles the promise,
\* the handler awaiting it resumes right after the event handler returns and
\* before any other event is handled: it stores the link's record and goes on
\* to its next await or its response. job is jobs[k] as the event handler
\* leaves it.
Deliver(k, job, v) ==
  LET b == k[1]
      settled == Resolve(job, v)
      js == [jobs EXCEPT ![k] = settled]
  IN IF job.outcome = <<>>
     THEN /\ RunFrom(b, links[b], idx[b] + 1,
                     StoreLast(results[b], TerminalRecord(links[b][idx[b]], settled.outcome[1])),
                     js)
          /\ UNCHANGED <<body, links, dir, quota>>
     ELSE /\ jobs' = js
          /\ UNCHANGED <<body, pc, links, idx, results, response, dir, quota, spawned>>

\* child.on('error', ...)
ErrorEvent(k) ==
  /\ jobs[k].child = "enoent"
  /\ ~jobs[k].errorSeen
  /\ \E msg \in SpawnErrorMessages :
       Deliver(k, [jobs[k] EXCEPT !.errorSeen = TRUE],
               ErrorOutcome(msg, jobs[k].stdout, jobs[k].stderr))

\* mutant: the handler listens to an event that comes while the process runs
CloseEventWhileRunning(k) ==
  /\ ~jobs[k].closeSeen
  /\ jobs[k].child \in {"running", "exited"}
  /\ \E code \in (IF jobs[k].child = "exited" THEN {jobs[k].exit[1]} ELSE ExitCodes),
        files \in ReaddirSync(dir, jobs[k].jobId),
        fsErr \in {"none", "readdir", "stat"} :
       LET found == Scan(dir, files, jobs[k].jobId, fsErr)
       IN Deliver(k, [jobs[k] EXCEPT !.closeSeen = TRUE, !.found = found],
                  CloseOutcome(code, found, jobs[k].stdout, jobs[k].stderr))

\* the calls of the file system that may throw in the 'close' handler
FsErrors == {"readdir", "stat"}

\* the try block throws: readdirSync fails, or statSync fails in the
\* comparator, which runs with two candidates or more
ScanThrows(files, jobId, fsErr) ==
  \/ fsErr = "readdir"
  \/ fsErr = "stat" /\ Len(Candidates(files, Prefix(jobId))) > 1

\* mutant: the 'close' handler resolves only when the exit code is 0
CloseHandlerDropsFailures(k, code, files, fsErr) ==
  LET found == Scan(dir, files, jobs[k].jobId, fsErr)
  IN IF code = 0
     THEN Deliver(k, [jobs[k] EXCEPT !.closeSeen = TRUE, !.found = found],
                  CloseOutcome(code, found, jobs[k].stdout, jobs[k].stderr))
     ELSE /\ jobs' = [jobs EXCEPT ![k].closeSeen = TRUE, ![k].found = found]
          /\ UNCHANGED <<body, pc, links, idx, results, response, dir, quota, spawned>>

\* the body of the 'close' handler, given the code of the event, what
\* readdirSync returns and which call of the file system throws, if any
CloseHandler(k, code, files, fsErr) ==
  LET found == Scan(dir, files, jobs[k].jobId, fsErr)
  IN Deliver(k, [jobs[k] EXCEPT !.closeSeen = TRUE, !.found = found],
             CloseOutcome(code, found, jobs[k].stdout, jobs[k].stderr))

\* child.on('close', ...): after the process has exited, or after the
\* 'error' event of a failed spawn
CloseEvent(k) ==
  /\ ~jobs[k].closeSeen
  /\ \/ jobs[k].child = "exited"
     \/ jobs[k].child = "enoent" /\ jobs[k].errorSeen
  /\ \E code \in (IF jobs[k].child = "exited" THEN {jobs[k].exit[1]} ELSE SpawnErrnos),
        files \in ReaddirSync(dir, jobs[k].jobId),
        fsErr \in {"none"} \cup FsErrors :
       CloseHandler(k, code, files, fsErr)

\* mutant: the first output of the subprocess settles the job
StdoutDataSettles(k) ==
  /\ jobs[k].child = "running"
  /\ jobs[k].stdout = <<>>
  /\ Deliver(k, [jobs[k] EXCEPT !.stdout = @ \o StdoutChunk],
             CloseOutcome(0, <<>>, StdoutChunk, jobs[k].stderr))

\* child.stdout.on('data', ...); what yt-dlp writes to a stream arrives as
\* one chunk
StdoutData(k) ==
  /\ jobs[k].child = "running"
  /\ jobs[k].stdout = <<>>
  /\ jobs' = [jobs EXCEPT ![k].stdout = @ \o StdoutChunk]
  /\ UNCHANGED <<body, pc, links, idx, results, response, dir, quota, spawned>>

\* child.stderr.on('data', ...)
StderrData(k) ==
  /\ jobs[k].child = "running"
  /\ jobs[k].stderr = <<>>
  /\ jobs' = [jobs EXCEPT ![k].stderr = @ \o StderrChunk]
  /\ UNCHANGED <<body, pc, links, idx, results, response, dir, quota, spawned>>

\* yt-dlp creates a file named after its output template
ToolWrite(k) ==
  /\ jobs[k].child = "running"
  /\ Cardinality({f \in dir : f.by = k}) < quota
  /\ \E tail \in Tails, size \in FileSizes :
       LET name == Prefix(jobs[k].jobId) \o tail
       IN /\ name \notin Names(dir)
          /\ dir' = dir \cup {[name |-> name, size |-> size, by |-> k]}
  /\ UNCHANGED <<body, pc, links, idx, results, response, jobs, quota, spawned>>

\* yt-dlp terminates
ToolExit(k) ==
  /\ jobs[k].child = "running"
  /\ \E code \in ExitCodes :
       jobs' = [jobs EXCEPT ![k].child = "exited", ![k].exit = <<code>>]
  /\ UNCHANGED <<body, pc, links, idx, results, response, dir, quota, spawned>>

Next ==
  \/ \E b \in Batches : Post(b)
  \/ \E k \in DOMAIN jobs : ErrorEvent(k)
  \/ \E k \in DOMAIN jobs : CloseEvent(k)
  \/ \E k \in DOMAIN jobs : StdoutData(k)
  \/ \E k \in DOMAIN jobs : StderrData(k)
  \/ \E k \in DOMAIN jobs : ToolWrite(k)
  \/ \E k \in DOMAIN jobs : ToolExit(k)

InitCommon ==
  /\ links = [b \in Batches |-> <<>>]
  /\ idx = [b \in Batches |-> 0]
  /\ results = [b \in Batches |-> <<>>]
  /\ response = [b \in Batches |-> <<>>]
  /\ jobs = <<>>
  /\ dir = {}
  /\ spawned = [b \in Batches |-> <<>>]

\* one request with the body bd
OneRequest(bd) ==
  /\ body = [b \in Batches |-> IF b = 1 THEN bd ELSE MissingBody]
  /\ pc = [b \in Batches |-> IF b = 1 THEN "start" ELSE "off"]

\* one request of any body
Init ==
  /\ \E bd \in Bodies : OneRequest(bd)
  /\ quota = FewFiles
  /\ InitCommon

Spec == Init /\ [][Next]_vars

\* Every request received is handled, the events of a child process are
\* delivered, and every subprocess spawned terminates.
Fairness ==
  /\ WF_vars(\E b \in Batches : Post(b))
  /\ WF_vars(\E k \in DOMAIN jobs : ErrorEvent(k))
  /\ WF_vars(\E k \in DOMAIN jobs : CloseEvent(k))
  /\ WF_vars(\E k \in DOMAIN jobs : ToolExit(k))

FairSpec == Init /\ [][Next]_vars /\ Fairness

\* one request of one link
InitJob ==
  /\ \E bd \in SingleBodies : OneRequest(bd)
  /\ quota = MaxFiles
  /\ InitCommon

SpecJob == InitJob /\ [][Next]_vars

\* two requests at the same time
InitConc ==
  /\ body \in [Batches -> ConcBodies]
  /\ pc = [b \in Batches |-> "start"]
  /\ quota = FewFiles
  /\ InitCommon

SpecConc == InitConc /\ [][Next]_vars

\* one request of two links: the first passes the shape check, the second
\* does not
InitScan ==
  /\ OneRequest(ArrayBody(<<JsString(LinkLower), JsString(LinkOther)>>))
  /\ quota = MaxFiles
  /\ InitCommon

SpecScan == InitScan /\ [][Next]_vars

(***************************************************************************)
(* Definitions the properties are stated with.                             *)
(***************************************************************************)
Sent(b) == response[b] # <<>>
Status(b) == response[b][1].status

\* the text of an entry of a links array
EntryText(v) == IF v.t = "null" THEN <<"n", "u", "l", "l">> ELSE v.s

\* the entries of a links array that are not the empty string, as texts
RECURSIVE KeptEntries(_)
KeptEntries(a) ==
  IF a = <<>> THEN <<>>
  ELSE (IF EntryText(Head(a)) = <<>> THEN <<>> ELSE <<EntryText(Head(a))>>)
       \o KeptEntries(Tail(a))

\* the links of the requests that contain the platform substring
PlatformLinks == {LinkLower, LinkMixed}

\* the positions up to n of the links of request b that hold a platform link
RECURSIVE PlatformPositions(_, _)
PlatformPositions(b, n) ==
  IF n = 0 THEN <<>>
  ELSE PlatformPositions(b, n - 1)
       \o (IF links[b][n] \in PlatformLinks THEN <<n>> ELSE <<>>)

Min(a, b) == IF a < b THEN a ELSE b

\* the record of the link of job k
RecordOf(k) == results[k[1]][k[2]]

CarriesPrefix(name, jobId) ==
  /\ Len(name) >= Len(jobId) + 3
  /\ \A i \in 1..Len(jobId) : name[i] = jobId[i]
  /\ name[Len(jobId) + 1] = " "
  /\ name[Len(jobId) + 2] = "-"
  /\ name[Len(jobId) + 3] = " "

IsPartial(name) ==
  /\ Len(name) >= 5
  /\ name[Len(name) - 4] = "."
  /\ name[Len(name) - 3] = "p"
  /\ name[Len(name) - 2] = "a"
  /\ name[Len(name) - 1] = "r"
  /\ name[Len(name)] = "t"

\* the files of the directory a scan for job k may select
CandidateFiles(k) ==
  {f \in dir : CarriesPrefix(f.name, jobs[k].jobId) /\ ~IsPartial(f.name)}

\* percent-decoding
RECURSIVE PercentDecode(_)
PercentDecode(s) ==
  IF s = <<>> THEN <<>>
  ELSE IF Head(s) = "%" /\ Len(s) >= 3
       THEN (IF SubSeq(s, 2, 3) = <<"2", "0">> THEN <<" ">>
             ELSE IF SubSeq(s, 2, 3) = <<"2", "5">> THEN <<"%">>
             ELSE <<"?">>)
            \o PercentDecode(SubSeq(s, 4, Len(s)))
       ELSE <<Head(s)>> \o PercentDecode(Tail(s))

\* ref is /downloads/ followed by the percent-encoded name
RefersTo(ref, name) ==
  /\ Len(ref) > Len(DownloadsPath)
  /\ SubSeq(ref, 1, Len(DownloadsPath)) = DownloadsPath
  /\ \A i \in (Len(DownloadsPath) + 1)..Len(ref) : ref[i] # " "
  /\ PercentDecode(SubSeq(ref, Len(DownloadsPath) + 1, Len(ref))) = name

\* the subprocess of job k was started and has not been handled as closed
InFlight(k) == jobs[k].child = "running" \/ (jobs[k].child = "exited" /\ ~jobs[k].closeSeen)

(***************************************************************************)
(* C1                                                                      *)
(***************************************************************************)
\* C1, as stated: a 200 response to a request whose links array has 1..15
\* entries has one record per entry of the array, the i-th carrying the i-th
\* entry.
C1_OneRecordPerEntry ==
  \A b \in Batches :
    (/\ Sent(b)
     /\ Status(b) = 200
     /\ body[b].kind = "array"
     /\ Len(body[b].arr) \in 1..MAX)
    => /\ Len(response[b][1].results) = Len(body[b].arr)
       /\ \A i \in 1..Len(body[b].arr) :
            response[b][1].results[i].link = EntryText(body[b].arr[i])

\* C1, amended: a 200 response has one record per entry of the links array
\* that is not the empty string (entries taken as strings), in the order of the
\* array: the i-th record carries the i-th such entry, whatever became of the
\* jobs; and there are 1..15 such entries.
C1_OneRecordPerKeptEntry ==
  \A b \in Batches :
    (Sent(b) /\ Status(b) = 200)
    => LET kept == KeptEntries(body[b].arr)
           sent == response[b][1].results
       IN /\ body[b].kind = "array"
          /\ Len(kept) \in 1..MAX
          /\ Len(sent) = Len(kept)
          /\ \A i \in 1..Len(kept) : sent[i].link = kept[i]

\* a 200 response with two records, the first a failed job, the second a
\* successful one
C1_Witness ==
  \E b \in Batches :
    /\ Sent(b)
    /\ Status(b) = 200
    /\ Len(body[b].arr) = 2
    /\ Len(response[b][1].results) = 2
    /\ <<b, 1>> \in DOMAIN jobs
    /\ ~response[b][1].results[1].ok
    /\ response[b][1].results[2].ok

(***************************************************************************)
(* C2                                                                      *)
(***************************************************************************)
\* a request is rejected whole: HTTP 400 without results, no record, no spawn
RejectedWhole(b) ==
  /\ Sent(b) => (Status(b) = 400 /\ "results" \notin DOMAIN response[b][1])
  /\ results[b] = <<>>
  /\ spawned[b] = <<>>
  /\ \A k \in DOMAIN jobs : k[1] # b

\* C2, as stated: a request whose links field is missing, not an array, an
\* array of 0 entries or an array of more than 15 entries is rejected whole.
C2_BadArrayRejected ==
  \A b \in Batches :
    (pc[b] # "off" /\ (body[b].kind # "array" \/ Len(body[b].arr) = 0 \/ Len(body[b].arr) > MAX))
    => RejectedWhole(b)

\* C2, amended: a request whose links field is missing, not an array, an array
\* without an entry other than the empty string, or an array with more than 15
\* entries other than the empty string (entries taken as strings) is rejected
\* whole.
C2_BadLinksRejected ==
  \A b \in Batches :
    (pc[b] # "off"
     /\ (\/ body[b].kind # "array"
         \/ Len(KeptEntries(body[b].arr)) = 0
         \/ Len(KeptEntries(body[b].arr)) > MAX))
    => RejectedWhole(b)

\* an array of more than 15 links answered with 400
C2_Witness ==
  \E b \in Batches :
    /\ body[b].kind = "array"
    /\ Len(KeptEntries(body[b].arr)) > MAX
    /\ Sent(b)
    /\ Status(b) = 400

(***************************************************************************)
(* C3                                                                      *)
(***************************************************************************)
\* C3: in an accepted batch the handler has called spawn exactly once for
\* every platform link (either case) it has reached, in order, and for no
\* other link; every link reached that is no platform link has the record
\* {link, ok: false, message}, and the loop went on after it: when the
\* response is sent every link has been reached.
C3_SpawnIffPlatformLink ==
  \A b \in Batches :
    /\ spawned[b] = PlatformPositions(b, Min(idx[b], Len(links[b])))
    /\ \A k \in DOMAIN jobs : k[1] = b => \E n \in DOMAIN spawned[b] : spawned[b][n] = k[2]
    /\ \A i \in 1..Len(results[b]) :
         links[b][i] \notin PlatformLinks
         => /\ DOMAIN results[b][i] = {"link", "ok", "message"}
            /\ results[b][i].link = links[b][i]
            /\ results[b][i].ok = FALSE
            /\ results[b][i].message # ""
    /\ (Sent(b) /\ Status(b) = 200) => idx[b] = Len(links[b]) + 1

\* a batch answered in which spawn was called for a platform link written in
\* upper and lower case, and a link failing the check got its record
C3_Witness ==
  \E b \in Batches :
    /\ Sent(b)
    /\ Status(b) = 200
    /\ \E i \in 1..Len(links[b]) : links[b][i] = LinkMixed /\ spawned[b] = <<i>>
    /\ \E i \in 1..Len(links[b]) : "message" \in DOMAIN results[b][i]

(***************************************************************************)
(* C4                                                                      *)
(***************************************************************************)
\* C4: a batch has at most one subprocess in flight (started, and not yet
\* handled as closed); when spawn has been called for a later link, the
\* subprocess of every earlier link that was started has exited, its 'close'
\* handler has scanned the directory, and the earlier link's record is
\* terminal.
C4_OneSubprocessInFlight ==
  \A b \in Batches :
    /\ Cardinality({k \in DOMAIN jobs : k[1] = b /\ InFlight(k)}) <= 1
    /\ \A k1 \in DOMAIN jobs, k2 \in DOMAIN jobs :
         (k1[1] = b /\ k2[1] = b /\ k1[2] < k2[2])
         => /\ ~InFlight(k1)
            /\ jobs[k1].child # "enoent" => (jobs[k1].child = "exited" /\ jobs[k1].closeSeen)
            /\ "ok" \in DOMAIN RecordOf(k1)
            /\ "status" \notin DOMAIN RecordOf(k1)

\* the second subprocess of a batch runs after the first one was started,
\* exited and was scanned
C4_Witness ==
  \E k1 \in DOMAIN jobs, k2 \in DOMAIN jobs :
    /\ k1[1] = k2[1]
    /\ k1[2] < k2[2]
    /\ jobs[k1].child = "exited"
    /\ jobs[k1].closeSeen
    /\ jobs[k2].child = "running"
    /\ \E f \in dir : f.by = k2

(***************************************************************************)
(* C5                                                                      *)
(***************************************************************************)
\* C5: the outcome of a job is a success exactly when its subprocess exited
\* with code 0 and the scan of its 'close' handler selected a file; the file
\* reference of a success is /downloads/ followed by the percent-encoded name
\* of the selected file, and it is the file of the link's record.
C5_SuccessIffZeroAndFile ==
  \A k \in DOMAIN jobs :
    jobs[k].outcome # <<>>
    => LET o == jobs[k].outcome[1]
       IN /\ o.ok <=> (/\ jobs[k].child = "exited"
                       /\ jobs[k].exit = <<0>>
                       /\ jobs[k].closeSeen
                       /\ jobs[k].found # <<>>)
          /\ o.ok => /\ o.filename # <<>>
                     /\ RefersTo(o.filename[1], jobs[k].found[1])
                     /\ RecordOf(k) = [link |-> jobs[k].link, ok |-> TRUE,
                                       file |-> o.filename]
          /\ ~o.ok => RecordOf(k).ok = FALSE

\* a subprocess exited with code 0 and left no file: its 'close' handler ran,
\* and the outcome is a failure with the exit code 0
C5_Witness ==
  \E k \in DOMAIN jobs :
    /\ jobs[k].exit = <<0>>
    /\ jobs[k].closeSeen
    /\ jobs[k].found = <<>>
    /\ dir = {}
    /\ ~jobs[k].outcome[1].ok
    /\ RecordOf(k).ok = FALSE
    /\ jobs[k].outcome[1].exitCode = 0

(***************************************************************************)
(* C6                                                                      *)
(***************************************************************************)
\* C6: the file a scan selects never ends in .part; a job whose subprocess
\* exited with code 0 while every file carrying its prefix ends in .part has
\* the outcome and the record ok: false.
C6_PartialNeverSelected ==
  \A k \in DOMAIN jobs :
    /\ jobs[k].found # <<>> => ~IsPartial(jobs[k].found[1])
    /\ (/\ jobs[k].closeSeen
        /\ jobs[k].exit = <<0>>
        /\ \A f \in dir : CarriesPrefix(f.name, jobs[k].jobId) => IsPartial(f.name))
       => /\ ~jobs[k].outcome[1].ok
          /\ RecordOf(k).ok = FALSE

\* a subprocess exited with code 0 and left only a .part file: ok is false
C6_Witness ==
  \E k \in DOMAIN jobs :
    /\ jobs[k].closeSeen
    /\ jobs[k].exit = <<0>>
    /\ \E f \in dir : CarriesPrefix(f.name, jobs[k].jobId)
    /\ \A f \in dir : CarriesPrefix(f.name, jobs[k].jobId) => IsPartial(f.name)
    /\ RecordOf(k).ok = FALSE

(***************************************************************************)
(* C7                                                                      *)
(***************************************************************************)
\* C7: the file a scan selects is a candidate of the job (own prefix, not
\* partial) and no candidate of the job is larger; the outcome references it.
C7_LargestCandidateSelected ==
  \A k \in DOMAIN jobs :
    jobs[k].found # <<>>
    => /\ \E f \in CandidateFiles(k) :
            /\ f.name = jobs[k].found[1]
            /\ \A g \in CandidateFiles(k) : g.size <= f.size
       /\ RefersTo(jobs[k].outcome[1].filename[1], jobs[k].found[1])

\* two candidates of different sizes, the larger one referenced by the record
C7_Witness ==
  \E k \in DOMAIN jobs :
    /\ jobs[k].found # <<>>
    /\ \E f \in CandidateFiles(k), g \in CandidateFiles(k) :
         /\ g.size < f.size
         /\ f.name = jobs[k].found[1]
    /\ RecordOf(k).ok
    /\ RefersTo(RecordOf(k).file[1], jobs[k].found[1])

(***************************************************************************)
(* C8                                                                      *)
(***************************************************************************)
\* the error text the claim expects of a subprocess that exited with code
ExpectedErrorText(stdout, stderr, code) ==
  IF stderr # <<>> THEN stderr
  ELSE IF stdout # <<>> THEN stdout
  ELSE <<"e", "x", "i", "t", "C", "o", "d", "e", " ">> \o NumToStr(code)

\* C8: once the 'close' handler of a subprocess that exited with a nonzero
\* code has run, the link's record is {link, ok: false, error}, the error
\* being the captured standard error if not empty, else the captured standard
\* output if not empty, else "exitCode " and the code.
C8_NonzeroExitErrorText ==
  \A k \in DOMAIN jobs :
    (jobs[k].child = "exited" /\ jobs[k].closeSeen /\ jobs[k].exit # <<0>>)
    => RecordOf(k) = [link |-> jobs[k].link, ok |-> FALSE,
                      error |-> ExpectedErrorText(jobs[k].stdout, jobs[k].stderr,
                                                  jobs[k].exit[1])]

\* a nonzero exit with both streams written, reported by its standard error
C8_Witness ==
  \E k \in DOMAIN jobs :
    /\ jobs[k].closeSeen
    /\ jobs[k].exit = <<1>>
    /\ jobs[k].stdout # <<>>
    /\ jobs[k].stderr # <<>>
    /\ jobs[k].stdout # jobs[k].stderr
    /\ RecordOf(k).error = jobs[k].stderr

(***************************************************************************)
(* C9                                                                      *)
(***************************************************************************)
\* C9, as stated: when the spawn fails, the link's record is ok: false with
\* the message of the spawn error as its error text, and the outcome has no
\* exitCode field.
C9_SpawnErrorMessageReported ==
  \A k \in DOMAIN jobs :
    (jobs[k].child = "enoent" /\ jobs[k].errorSeen)
    => /\ "exitCode" \notin DOMAIN jobs[k].outcome[1]
       /\ RecordOf(k).ok = FALSE
       /\ RecordOf(k).error = jobs[k].outcome[1].err

(***************************************************************************)
(* C10                                                                     *)
(***************************************************************************)
\* C10: with two batches running at the same time, the file a scan selects
\* for a job was written by that job's own subprocess and carries that job's
\* prefix, and a successful record references that file.
C10_OwnFileSelected ==
  \A k \in DOMAIN jobs :
    jobs[k].found # <<>>
    => /\ \E f \in dir : f.name = jobs[k].found[1] /\ f.by = k
       /\ CarriesPrefix(jobs[k].found[1], jobs[k].jobId)
       /\ RecordOf(k).ok => RefersTo(RecordOf(k).file[1], jobs[k].found[1])

\* a scan selected a job's file while the directory held a larger candidate
\* written by the subprocess of the other batch, which is still running
C10_Witness ==
  \E k1 \in DOMAIN jobs, k2 \in DOMAIN jobs :
    /\ k1[1] # k2[1]
    /\ jobs[k1].found # <<>>
    /\ jobs[k2].child = "running"
    /\ \E f \in dir, g \in dir :
         /\ f.name = jobs[k1].found[1]
         /\ g.by = k2
         /\ ~IsPartial(g.name)
         /\ g.size > f.size

(***************************************************************************)
(* C11                                                                     *)
(***************************************************************************)
\* request b has passed the checks of the links' number
Accepted(b) == pc[b] \in {"await", "done"} /\ Len(links[b]) \in 1..MAX

\* a record a response may carry for a link
IsTerminal(rec, link) ==
  /\ rec.link = link
  /\ \/ DOMAIN rec = {"link", "ok", "file"} /\ rec.ok = TRUE
     \/ DOMAIN rec = {"link", "ok", "error"} /\ rec.ok = FALSE
     \/ DOMAIN rec = {"link", "ok", "message"} /\ rec.ok = FALSE

\* C11: an accepted batch is never aborted by the failure of a link. It is
\* either suspended on a link whose job has no outcome yet, every earlier link
\* having its terminal record, or it has answered with HTTP 200 and one
\* record for every link; no failure record stops the loop.
C11_FailuresNeverAbort ==
  \A b \in Batches :
    Accepted(b)
    => /\ Len(results[b]) = Min(idx[b], Len(links[b]))
       /\ \A i \in 1..(idx[b] - 1) : IsTerminal(results[b][i], links[b][i])
       /\ pc[b] = "await"
          => /\ idx[b] \in 1..Len(links[b])
             /\ <<b, idx[b]>> \in DOMAIN jobs
             /\ jobs[<<b, idx[b]>>].outcome = <<>>
             /\ ~Sent(b)
       /\ pc[b] = "done"
          => /\ Sent(b)
             /\ Status(b) = 200
             /\ idx[b] = Len(links[b]) + 1
             /\ Len(response[b][1].results) = Len(links[b])

\* a 200 response with two records: the spawn for the first link failed, the
\* subprocess of the second link then ran and exited with code 0 leaving no
\* file
C11_Witness ==
  \E b \in Batches :
    /\ Sent(b)
    /\ Status(b) = 200
    /\ Len(response[b][1].results) = 2
    /\ <<b, 1>> \in DOMAIN jobs
    /\ jobs[<<b, 1>>].child = "enoent"
    /\ <<b, 2>> \in DOMAIN jobs
    /\ jobs[<<b, 2>>].exit = <<0>>
    /\ jobs[<<b, 2>>].found = <<>>
    /\ ~response[b][1].results[1].ok
    /\ ~response[b][1].results[2].ok

(***************************************************************************)
(* C12                                                                     *)
(***************************************************************************)
\* C12: a 200 response is sent after the loop has passed every link and the
\* job of every link that passed the shape check has its outcome; it carries
\* exactly one record per link, in the links' order, each of them terminal
\* ({link, ok: true, file}, {link, ok: false, error} or {link, ok: false,
\* message}) and none with a status field.
C12_ResponseRecordsTerminal ==
  \A b \in Batches :
    (Sent(b) /\ Status(b) = 200)
    => LET sent == response[b][1].results
       IN /\ Len(sent) = Len(links[b])
          /\ \A i \in 1..Len(sent) :
               /\ "status" \notin DOMAIN sent[i]
               /\ IsTerminal(sent[i], links[b][i])
          /\ idx[b] = Len(links[b]) + 1
          /\ \A i \in 1..Len(links[b]) :
               links[b][i] \in PlatformLinks
               => /\ <<b, i>> \in DOMAIN jobs
                  /\ jobs[<<b, i>>].outcome # <<>>
          /\ results[b] = sent

\* a 200 response whose first record carries a file and whose second record
\* carries the message of the failed shape check
C12_Witness ==
  \E b \in Batches :
    /\ Sent(b)
    /\ Status(b) = 200
    /\ Len(response[b][1].results) = 2
    /\ "file" \in DOMAIN response[b][1].results[1]
    /\ "message" \in DOMAIN response[b][1].results[2]

(***************************************************************************)
(* C13                                                                     *)
(***************************************************************************)
\* C13, as stated: when the spawn of a job has failed, the 'error' handler
\* produces the outcome, and the 'close' handler, which lists the directory,
\* never runs for that job.
C13_NoScanAfterSpawnFailure ==
  \A k \in DOMAIN jobs :
    jobs[k].child = "enoent"
    => /\ jobs[k].errorSeen => (jobs[k].outcome # <<>> /\ "err" \in DOMAIN jobs[k].outcome[1])
       /\ ~jobs[k].closeSeen

(***************************************************************************)
(* C14                                                                     *)
(***************************************************************************)
\* C14, as stated: an outcome that is no success carries no file reference:
\* it has no filename, or its filename is null.
C14_FileReferenceOnlyOnSuccess ==
  \A k \in DOMAIN jobs :
    (jobs[k].outcome # <<>> /\ ~jobs[k].outcome[1].ok)
    => \/ "filename" \notin DOMAIN jobs[k].outcome[1]
       \/ jobs[k].outcome[1].filename = <<>>

(***************************************************************************)
(* C15                                                                     *)
(***************************************************************************)
\* C15: when the 'close' handler of a subprocess that has exited runs and its
\* scan throws (readdirSync fails, or statSync fails while two candidates or
\* more are ordered), no file is selected, the outcome is a failure without
\* file that carries the exit code, the link's record is {link, ok: false,
\* error}, and the handler of the request goes on: it passes on to the next
\* link, and it answers with HTTP 200 and a record for every link when no
\* link is left to await.
C15_ScanErrorsSwallowed ==
  [][\A k \in DOMAIN jobs :
       \A files \in ReaddirSync(dir, jobs[k].jobId), fsErr \in FsErrors :
         (/\ jobs[k].child = "exited"
          /\ ~jobs[k].closeSeen
          /\ ScanThrows(files, jobs[k].jobId, fsErr)
          /\ CloseHandler(k, jobs[k].exit[1], files, fsErr))
         => LET b == k[1]
            IN /\ jobs'[k].found = <<>>
               /\ jobs'[k].outcome =
                    <<[ok |-> FALSE, exitCode |-> jobs[k].exit[1], filename |-> <<>>,
                       stdout |-> jobs[k].stdout, stderr |-> jobs[k].stderr]>>
               /\ results'[b][k[2]] =
                    [link |-> jobs[k].link, ok |-> FALSE,
                     error |-> ExpectedErrorText(jobs[k].stdout, jobs[k].stderr,
                                                 jobs[k].exit[1])]
               /\ idx'[b] > idx[b]
               /\ Len(results'[b]) = Min(idx'[b], Len(links[b]))
               /\ \/ pc'[b] = "await" /\ response'[b] = <<>>
                  \/ /\ pc'[b] = "done"
                     /\ response'[b] = <<[status |-> 200, results |-> results'[b]]>>
                     /\ Len(results'[b]) = Len(links[b])
  ]_vars

\* a subprocess exited with code 0 leaving two candidates, the scan threw and
\* selected none: the link's record is a failure carrying the exit code, the
\* next link has its record and the response is sent
C15_Witness ==
  \E k \in DOMAIN jobs :
    /\ jobs[k].exit = <<0>>
    /\ jobs[k].closeSeen
    /\ Cardinality(CandidateFiles(k)) = 2
    /\ jobs[k].found = <<>>
    /\ jobs[k].outcome[1].exitCode = 0
    /\ RecordOf(k).ok = FALSE
    /\ RecordOf(k).error = ExpectedErrorText(jobs[k].stdout, jobs[k].stderr, 0)
    /\ Len(results[k[1]]) = k[2] + 1
    /\ Sent(k[1])
    /\ Status(k[1]) = 200

(***************************************************************************)
(* C16                                                                     *)
(***************************************************************************)
\* C16: as long as the subprocess of a link has not terminated, its job has
\* no outcome, the handler of its request is suspended on that link, whose
\* record is still the started one, no response has been sent for the request
\* and spawn has been called for no later link. Nothing but the termination
\* of the subprocess ends this: a subprocess that never terminates leaves the
\* batch so forever.
C16_HungSubprocessStallsBatch ==
  \A k \in DOMAIN jobs :
    jobs[k].child = "running"
    => LET b == k[1]
       IN /\ jobs[k].outcome = <<>>
          /\ pc[b] = "await"
          /\ idx[b] = k[2]
          /\ RecordOf(k) = StartedRecord(jobs[k].link)
          /\ Len(results[b]) = k[2]
          /\ ~Sent(b)
          /\ spawned[b][Len(spawned[b])] = k[2]
          /\ \A k2 \in DOMAIN jobs : k2[1] = b => k2[2] <= k[2]

\* a subprocess that has written to both streams and created its file but has
\* not terminated, while a later link of the batch waits
C16_Witness ==
  \E k \in DOMAIN jobs :
    /\ jobs[k].child = "running"
    /\ jobs[k].stdout # <<>>
    /\ jobs[k].stderr # <<>>
    /\ \E f \in dir : f.by = k
    /\ Len(links[k[1]]) > k[2]
    /\ pc[k[1]] = "await"

(***************************************************************************)
(* C17                                                                     *)
(***************************************************************************)
\* C17: a step that changes the directory is a step of a running subprocess
\* that creates one file carrying its job's prefix and leaves the files
\* already there as they are; it changes nothing of the handler and of the
\* runner. So no step of the handler or of the runner (the 'close' handler's
\* listing and size reads included) creates, modifies or deletes a file.
C17_OnlyToolWritesFiles ==
  [][dir' # dir
     => /\ UNCHANGED <<pc, links, idx, results, response, jobs, spawned>>
        /\ \E k \in DOMAIN jobs :
             /\ jobs[k].child = "running"
             /\ \E f \in dir' :
                  /\ f.name \notin Names(dir)
                  /\ dir' = dir \cup {f}
                  /\ f.by = k
                  /\ CarriesPrefix(f.name, jobs[k].jobId)
  ]_vars

\* the 'close' handler of a job has scanned a directory holding a partial
\* file and a candidate of the job, has selected the candidate, and both
\* files are still there
C17_Witness ==
  \E k \in DOMAIN jobs :
    /\ jobs[k].closeSeen
    /\ jobs[k].found # <<>>
    /\ \E f \in dir, g \in dir :
         /\ f.by = k
         /\ g.by = k
         /\ IsPartial(f.name)
         /\ g.name = jobs[k].found[1]

(***************************************************************************)
(* C18                                                                     *)
(***************************************************************************)
\* C18: once a job has its outcome, no step changes the outcome or the
\* record of the job's link; an 'error' or 'close' event handled for a job
\* that has its outcome already changes no record of any link, sends no
\* response, spawns nothing and does not move the loop.
C18_OutcomeSettledOnce ==
  [][\A k \in DOMAIN jobs :
       jobs[k].outcome # <<>>
       => /\ jobs'[k].outcome = jobs[k].outcome
          /\ results'[k[1]][k[2]] = results[k[1]][k[2]]
          /\ (\/ jobs'[k].errorSeen # jobs[k].errorSeen
              \/ jobs'[k].closeSeen # jobs[k].closeSeen)
             => /\ UNCHANGED <<pc, idx, results, response, spawned>>
                /\ DOMAIN jobs' = DOMAIN jobs
  ]_vars

\* both events of a failed spawn have been handled: the outcome is the one of
\* the 'error' handler, the link's record is the one made of it, and the
\* batch has gone on to its next job
C18_Witness ==
  \E k \in DOMAIN jobs :
    /\ jobs[k].child = "enoent"
    /\ jobs[k].errorSeen
    /\ jobs[k].closeSeen
    /\ "err" \in DOMAIN jobs[k].outcome[1]
    /\ "exitCode" \notin DOMAIN jobs[k].outcome[1]
    /\ RecordOf(k) = TerminalRecord(jobs[k].link, jobs[k].outcome[1])
    /\ <<k[1], k[2] + 1>> \in DOMAIN jobs

(***************************************************************************)
(* C19                                                                     *)
(***************************************************************************)
\* the jobs made for request b
JobsOf(b) == {k \in DOMAIN jobs : k[1] = b}

\* request b is answered with HTTP 200 after one job for each of its links
\* that pass the shape check, each job having its outcome
Answered(b) ==
  /\ Sent(b)
  /\ Status(b) = 200
  /\ pc[b] = "done"
  /\ spawned[b] = PlatformPositions(b, Len(links[b]))
  /\ Cardinality(JobsOf(b)) = Len(spawned[b])
  /\ \A k \in JobsOf(b) : jobs[k].outcome # <<>>

\* C19: when every spawn ends in its 'error' event or in the termination of
\* the subprocess, and the events are delivered, every accepted batch is
\* eventually answered with HTTP 200, after as many jobs as it has links that
\* pass the shape check; and a response that was sent is never replaced by
\* another one.
C19_AcceptedBatchAnswered ==
  /\ \A b \in Batches : Accepted(b) ~> Answered(b)
  /\ [][\A b \in Batches : Sent(b) => response'[b] = response[b]]_vars

\* a batch answered after two jobs, both subprocesses having terminated
C19_Witness ==
  \E b \in Batches :
    /\ Answered(b)
    /\ Cardinality(JobsOf(b)) = 2
    /\ \A k \in JobsOf(b) : jobs[k].child = "exited" /\ jobs[k].closeSeen

====
